---- MODULE Spec2Model ----
(***************************************************************************)
(* A model of three pieces of opendal:                                     *)
(*   - GdriveLister::next_page     (core/src/services/gdrive/lister.rs)    *)
(*   - BytesContentRange           (src/ops/bytes_content_range.rs)        *)
(*   - RetryLayer, ConcurrentLimitLayer (bindings/ruby/src/layers.rs)      *)
(* Strings that the code inspects character by character (paths, file      *)
(* names, the Content-Range text) are sequences of one-character strings.  *)
(* Option<T> is a sequence of length at most one: <<>> is None, <<v>> is    *)
(* Some(v).                                                                *)
(***************************************************************************)
EXTENDS Integers, Sequences, FiniteSets, TLC

VARIABLES
    path_cache,   \* GdriveCore.path_cache: path -> Option<id>, shared by all listers
    ctx,          \* per lister: oio::PageContext {token, done, entries}
    pc,           \* per lister: where its pager / next_page call stands
    loc,          \* per lister: the locals of the running next_page call
    op_stat,      \* per lister: self.op.metakey() meets ContentLength | LastModified
    chain,        \* per lister: number of pages the remote serves for the folder
    folder_size,  \* most children the remote folder holds
    fault_budget, \* most failures the remote and the cache inject in one traversal
    hist,         \* per lister: what has happened in this traversal (history)
    first_id,     \* per path: the first id ever registered for it (history)
    cr,           \* the Content-Range text at hand and what was made of it
    made,         \* the layer a constructor has returned and that is not yet applied
    op_layers,    \* the layers of the Operator, innermost (first applied) first
    permits,      \* per layer of the Operator: free slots of its admission gate
    calls,        \* per caller: where its call through the Operator stands
    applied       \* number of layers applied to the Operator so far (history)

listerVars == <<path_cache, ctx, pc, loc, op_stat, chain, folder_size, fault_budget, fault_budget, hist,
                first_id>>
layerVars == <<made, op_layers, permits, calls, applied>>
vars == <<path_cache, ctx, pc, loc, op_stat, chain, folder_size, fault_budget, fault_budget, hist, first_id,
          cr, made, op_layers, permits, calls, applied>>

(***************************************************************************)
(* Bounds.                                                                 *)
(***************************************************************************)
MaxPages == 2     \* longest remote page chain
MaxChildren == 2  \* most children of the listed folder
ConcChildren == 1 \* the same, when two traversals run concurrently
MaxFaults == 1    \* most failing remote / cache calls in one traversal

Listers == {"t1", "t2"}
Main == "t1"      \* the lister of a traversal that runs alone

None == <<>>
Some(v) == <<v>>

(***************************************************************************)
(* The remote side: records and listing bodies.                            *)
(***************************************************************************)
FolderMime == "application/vnd.google-apps.folder"
OtherMime == "text/plain"

\* GdriveFile records the remote may return.  The first two share a name and
\* differ in id (Google Drive allows it); the third is a folder.
Records ==
    { [id |-> "id1", name |-> <<"a">>, mime_type |-> OtherMime],
      [id |-> "id2", name |-> <<"a">>, mime_type |-> OtherMime],
      [id |-> "id3", name |-> <<"b">>, mime_type |-> FolderMime] }

Ids == {"id0"} \cup {r.id : r \in Records}

RECURSIVE SeqsUpTo(_, _)
SeqsUpTo(S, n) ==
    IF n = 0 THEN {<<>>}
    ELSE LET shorter == SeqsUpTo(S, n - 1)
         IN  shorter \cup {Append(s, x) : s \in {q \in shorter : Len(q) = n - 1}, x \in S}

\* The tokens of a chain: 0 is the empty string, k > 0 the cursor that the
\* response for page k carries and that fetches page k + 1.
EmptyToken == <<>>
Token(k) == IF k = 0 THEN EmptyToken ELSE <<"t", k>>
PageOf(token) == IF token = EmptyToken THEN 1 ELSE token[2] + 1

\* GdriveFileList as gdrive_list returns it for the page fetched with `token`
\* out of a chain of n pages: at most `room` records, and a next_page_token
\* unless the page is the last.
Bodies(token, n, room) ==
    { [decodable |-> TRUE, files |-> fs,
       next_page_token |-> IF PageOf(token) < n THEN Some(Token(PageOf(token))) ELSE None]
      : fs \in SeqsUpTo(Records, room) }

\* The same page, answered with a cursor that is the empty string.
BlankBodies(room) ==
    { [decodable |-> TRUE, files |-> fs, next_page_token |-> Some(EmptyToken)]
      : fs \in SeqsUpTo(Records, room) }

\* A non-empty body that is not a GdriveFileList.
BadBody == [decodable |-> FALSE, files |-> <<>>, next_page_token |-> None]

(***************************************************************************)
(* Paths.                                                                  *)
(***************************************************************************)
Root == <<"/">>
SelfPath == <<"/", "d", "/">>      \* GdriveLister.path

EndsWithSlash(name) == Len(name) > 0 /\ name[Len(name)] = "/"

build_rel_path(root, path) == SubSeq(path, Len(root) + 1, Len(path))

\* lines 122-129: the type marker decides the mode; a folder's name gets a
\* trailing slash unless it has one.
NormName(file) ==
    IF file.mime_type = FolderMime /\ ~EndsWithSlash(file.name)
    THEN file.name \o <<"/">>
    ELSE file.name

FileType(file) == IF file.mime_type = FolderMime THEN "DIR" ELSE "FILE"

\* line 131
ChildPath(file) == SelfPath \o NormName(file)

Paths == {SelfPath} \cup {ChildPath(r) : r \in Records}

(***************************************************************************)
(* PathCache (§4.2): get is a lookup, insert stores the mapping.           *)
(***************************************************************************)
CacheGet(cache, path) == cache[path]

CacheInsert(cache, path, id) == [cache EXCEPT ![path] = Some(id)]

\* The Result<Option<id>> of a lookup.
Ok(v) == [ok |-> TRUE, val |-> v]
Err == [ok |-> FALSE, val |-> None]

\* lines 138-140: insert only when the lookup answered Ok(None).  `seen` is
\* the answer of the lookup.
RegisterNoGuard(cache, seen, path, id) == CacheInsert(cache, path, id)

Register(cache, seen, path, id) ==
    IF seen = Ok(None) THEN CacheInsert(cache, path, id) ELSE cache

(***************************************************************************)
(* PageContext and entries.                                                *)
(***************************************************************************)
NewCtx == [token |-> EmptyToken, done |-> FALSE, entries |-> <<>>]

\* oio::Entry::new(path, metadata); `stat` tells whether the metadata was
\* filled from a stat_file response or carries the mode only.
Entry(path, mode, stat) == [path |-> path, mode |-> mode, stat |-> stat]

\* lines 86-89: the Metakey flags the caller may ask for, and whether they
\* meet ContentLength | LastModified.
MetakeySets == {{"Mode"}, {"ContentLength"}, {"Mode", "LastModified"}}

stat_file_metadata_not_negated(metakey) == metakey \cap {"ContentLength", "LastModified"} = {}

stat_file_metadata(metakey) == metakey \cap {"ContentLength", "LastModified"} # {}

\* line 72: the token that goes with the list request
list_token_first(c) == EmptyToken

list_token(c) == c.token

\* line 92
IsFirstPageNever(c) == FALSE

IsFirstPageAlways(c) == TRUE

IsFirstPage(c) == c.token = EmptyToken /\ ~c.done

\* lines 115-119
ContinueNeverDone(c, next_page_token) ==
    IF next_page_token # None THEN [c EXCEPT !.token = next_page_token[1]] ELSE c

Continue(c, next_page_token) ==
    IF next_page_token # None
    THEN [c EXCEPT !.token = next_page_token[1]]
    ELSE [c EXCEPT !.done = TRUE]

\* lines 64-67 and 81-84: the traversal ends early.
EndEarlyWithEntry(c) ==
    [c EXCEPT !.done = TRUE, !.entries = Append(@, Entry(build_rel_path(Root, SelfPath), "DIR", FALSE))]

EndEarly(c) == [c EXCEPT !.done = TRUE]

\* stat_file (lines 37-50) followed by the two field parses (97-106, 147-156).
StatOutcomes == {"ok", "stat_err", "parse_size_err", "parse_time_err"}

NoLoc == [file_id |-> None, body |-> BadBody, files |-> <<>>, seen |-> Err]

\* calls, lists: next_page and gdrive_list calls made; served: records in the
\* pages decoded; faults: failures injected, and answers whose cursor is the
\* empty string; early: how the traversal ended early, if it did; kept: a
\* registration was turned down because the path had another id; pre: the
\* context as it was when the running call began; metakey: what the caller
\* asked for; stats: stat_file calls made; sent: the token of the last list
\* request; cursor: the next-page token of the last response decoded (the
\* empty token before the first).
NewHist ==
    [calls |-> 0, lists |-> 0, served |-> 0, faults |-> 0, early |-> "no",
     kept |-> FALSE, pre |-> NewCtx, metakey |-> {}, stats |-> 0, sent |-> None,
     cursor |-> EmptyToken]

\* The ids an earlier listing may have left in the cache for a path.
IdsOf(path) == {r.id : r \in {q \in Records : ChildPath(q) = path}}

EmptyCaches == {[p \in Paths |-> None]}

AnyCaches == {c \in [Paths -> {None} \cup {Some(i) : i \in Ids}] :
                 \A p \in Paths : c[p] = None \/ c[p][1] \in IdsOf(p)}

IdleCR == [phase |-> "idle"]

(***************************************************************************)
(* Calls through the layers of an Operator.                                *)
(***************************************************************************)
MaxLayers == 2    \* most layers applied to the Operator
MaxLimit == 2     \* largest limit given to ConcurrentLimitLayer::new
MaxTimes == 3     \* largest max_times given to RetryLayer::new

Callers == 1..(MaxLimit + 1)
Solo == 1         \* the caller of a call that runs alone

\* The most backend attempts of one call that the model follows.
MaxTries == MaxTimes + 1

\* A call: st is idle, down (on its way in), up (on its way out) or done;
\* at is the layer it stands at (0 is the backend); res the outcome of the
\* last backend attempt; tries the attempts each retry layer has made in its
\* current run; held the gates it holds a slot of; trace the layers (each
\* by its place in the order of application) and the backend (0) in the
\* order the call first came to them; backend the backend
\* attempts made; retryable: every one of them failed with a retryable error.
NewCall ==
    [st |-> "idle", at |-> 0, res |-> "none", tries |-> [k \in 1..MaxLayers |-> 0],
     held |-> {}, trace |-> <<>>, backend |-> 0, retryable |-> TRUE]

Outcomes == {"ok", "retryable", "permanent"}

InitLayers ==
    /\ made = None
    /\ op_layers = <<>>
    /\ permits = <<>>
    /\ calls = [c \in Callers |-> NewCall]
    /\ applied = 0

(***************************************************************************)
(* Initial states: no traversal has started; the folder may or may not be  *)
(* known to the cache.                                                     *)
(***************************************************************************)
InitLister(size, caches, faults) ==
    /\ \E resolved \in BOOLEAN, c \in caches :
          path_cache = [c EXCEPT ![SelfPath] = IF resolved THEN Some("id0") ELSE None]
    /\ first_id = path_cache
    /\ ctx = [t \in Listers |-> NewCtx]
    /\ pc = [t \in Listers |-> "none"]
    /\ loc = [t \in Listers |-> NoLoc]
    /\ op_stat = [t \in Listers |-> FALSE]
    /\ chain = [t \in Listers |-> 1]
    /\ folder_size = size
    /\ fault_budget = faults
    /\ hist = [t \in Listers |-> NewHist]
    /\ InitLayers

Init == InitLister(MaxChildren, AnyCaches, MaxFaults) /\ cr = IdleCR

\* Concurrent traversals, the first on this backend, with a remote that does
\* not fail.
InitConc == InitLister(ConcChildren, EmptyCaches, 0) /\ cr = IdleCR

\* One traversal, the first on this backend, with a remote that does not
\* fail: no child is in the cache yet.
InitFirst == InitLister(MaxChildren, EmptyCaches, 0) /\ cr = IdleCR

MayFault(t) == hist[t].faults < fault_budget

\* lines 95-96 and 145-146: stat_file is called when the metadata is asked for.
StatCalls(n, stat_wanted) == IF stat_wanted THEN n + 1 ELSE n

\* next_page returns Err(..): a fault was injected.
Fail(t) ==
    /\ pc' = [pc EXCEPT ![t] = "err"]
    /\ hist' = [hist EXCEPT ![t].faults = @ + 1]

\* lines 53-55: GdriveLister::new(path, core, op) for a folder whose listing
\* the remote serves in chain[t] pages.
New(t) ==
    /\ pc[t] = "none"
    /\ pc' = [pc EXCEPT ![t] = "new"]
    /\ \E mk \in MetakeySets :
          /\ op_stat' = [op_stat EXCEPT ![t] = stat_file_metadata(mk)]
          /\ hist' = [hist EXCEPT ![t].metakey = mk]
    /\ \E n \in 1..MaxPages : chain' = [chain EXCEPT ![t] = n]
    /\ UNCHANGED <<path_cache, ctx, loc, folder_size, fault_budget, first_id, cr, layerVars>>

(***************************************************************************)
(* The pager calls next_page (again after Ok or Err) while done is false.  *)
(***************************************************************************)
Call(t) ==
    /\ pc[t] \in {"new", "ok", "err"}
    /\ ~ctx[t].done
    /\ pc' = [pc EXCEPT ![t] = "resolve"]
    /\ hist' = [hist EXCEPT ![t].calls = @ + 1, ![t].pre = ctx[t]]
    /\ loc' = [loc EXCEPT ![t] = NoLoc]
    /\ UNCHANGED <<path_cache, ctx, op_stat, chain, folder_size, fault_budget, first_id, cr, layerVars>>

\* lines 60-68
Resolve(t) ==
    /\ pc[t] = "resolve"
    /\ \/ /\ MayFault(t)
          /\ Fail(t)
          /\ UNCHANGED <<ctx, loc>>
       \/ /\ CacheGet(path_cache, SelfPath) = None
          /\ ctx' = [ctx EXCEPT ![t] = EndEarly(@)]
          /\ pc' = [pc EXCEPT ![t] = "ok"]
          /\ hist' = [hist EXCEPT ![t].early = "unresolved"]
          /\ UNCHANGED loc
       \/ /\ CacheGet(path_cache, SelfPath) # None
          /\ loc' = [loc EXCEPT ![t].file_id = CacheGet(path_cache, SelfPath)]
          /\ pc' = [pc EXCEPT ![t] = "list"]
          /\ UNCHANGED <<ctx, hist>>
    /\ UNCHANGED <<path_cache, op_stat, chain, folder_size, fault_budget, first_id, cr, layerVars>>

\* lines 70-84
List(t) ==
    /\ pc[t] = "list"
    /\ \/ /\ MayFault(t)       \* the request fails, or the status is not OK
          /\ pc' = [pc EXCEPT ![t] = "err"]
          /\ hist' = [hist EXCEPT ![t].faults = @ + 1, ![t].lists = @ + 1,
                                   ![t].sent = Some(list_token(ctx[t]))]
          /\ UNCHANGED <<ctx, loc>>
       \/ /\ ctx' = [ctx EXCEPT ![t] = EndEarly(@)]     \* OK, empty bytes
          /\ pc' = [pc EXCEPT ![t] = "ok"]
          /\ hist' = [hist EXCEPT ![t].lists = @ + 1, ![t].early = "empty",
                                   ![t].sent = Some(list_token(ctx[t]))]
          /\ UNCHANGED loc
       \/ /\ \E b \in Bodies(list_token(ctx[t]), chain[t], folder_size - hist[t].served) \cup
                      (IF MayFault(t)
                       THEN {BadBody} \cup BlankBodies(folder_size - hist[t].served)
                       ELSE {}) :
                /\ loc' = [loc EXCEPT ![t].body = b]
                /\ hist' = [hist EXCEPT ![t].lists = @ + 1,
                                         ![t].sent = Some(list_token(ctx[t])),
                                         ![t].faults =
                                             IF b.next_page_token = Some(EmptyToken)
                                             THEN @ + 1 ELSE @]
          /\ pc' = [pc EXCEPT ![t] = "self"]
          /\ UNCHANGED ctx
    /\ UNCHANGED <<path_cache, op_stat, chain, folder_size, fault_budget, first_id, cr, layerVars>>

\* lines 86-110
SelfEntry(t) ==
    /\ pc[t] = "self"
    /\ \/ /\ ~IsFirstPage(ctx[t])
          /\ pc' = [pc EXCEPT ![t] = "decode"]
          /\ UNCHANGED <<ctx, hist>>
       \/ /\ IsFirstPage(ctx[t])
          /\ \E o \in (IF op_stat[t] THEN StatOutcomes ELSE {"ok"}) :
               \/ /\ o = "ok"
                  /\ ctx' = [ctx EXCEPT ![t].entries =
                               Append(@, Entry(build_rel_path(Root, SelfPath), "DIR", op_stat[t]))]
                  /\ pc' = [pc EXCEPT ![t] = "decode"]
                  /\ hist' = [hist EXCEPT ![t].stats = StatCalls(@, op_stat[t])]
               \/ /\ o # "ok"
                  /\ MayFault(t)
                  /\ pc' = [pc EXCEPT ![t] = "err"]
                  /\ hist' = [hist EXCEPT ![t].faults = @ + 1,
                                           ![t].stats = StatCalls(@, op_stat[t])]
                  /\ UNCHANGED ctx
    /\ UNCHANGED <<path_cache, loc, op_stat, chain, folder_size, fault_budget, first_id, cr, layerVars>>

\* lines 112-119
Decode(t) ==
    /\ pc[t] = "decode"
    /\ \/ /\ ~loc[t].body.decodable
          /\ Fail(t)
          /\ UNCHANGED <<ctx, loc>>
       \/ /\ loc[t].body.decodable
          /\ ctx' = [ctx EXCEPT ![t] = Continue(@, loc[t].body.next_page_token)]
          /\ loc' = [loc EXCEPT ![t].files = loc[t].body.files]
          /\ pc' = [pc EXCEPT ![t] = "loop"]
          /\ hist' = [hist EXCEPT ![t].served = @ + Len(loc[t].body.files),
                                   ![t].cursor = IF loc[t].body.next_page_token # None
                                                 THEN loc[t].body.next_page_token[1] ELSE @]
    /\ UNCHANGED <<path_cache, op_stat, chain, folder_size, fault_budget, first_id, cr, layerVars>>

\* lines 121-138: the next record; look its path up in the cache.
ChildGet(t) ==
    /\ pc[t] = "loop"
    /\ loc[t].files # <<>>
    /\ \/ /\ MayFault(t)
          /\ loc' = [loc EXCEPT ![t].seen = Err]
          /\ hist' = [hist EXCEPT ![t].faults = @ + 1]
       \/ /\ loc' = [loc EXCEPT ![t].seen = Ok(CacheGet(path_cache, ChildPath(Head(loc[t].files))))]
          /\ UNCHANGED hist
    /\ pc' = [pc EXCEPT ![t] = "put"]
    /\ UNCHANGED <<path_cache, ctx, op_stat, chain, folder_size, fault_budget, first_id, cr, layerVars>>

\* lines 138-161: register the path if the lookup found none, fetch the
\* metadata if asked for, push the entry.
ChildPut(t) ==
    /\ pc[t] = "put"
    /\ LET file == Head(loc[t].files)
           path == ChildPath(file)
           seen == loc[t].seen
           kept == hist[t].kept \/ (seen.ok /\ seen.val # None /\ seen.val # Some(file.id))
       IN  /\ path_cache' = Register(path_cache, seen, path, file.id)
           /\ first_id' = IF first_id[path] = None
                          THEN [first_id EXCEPT ![path] = path_cache'[path]]
                          ELSE first_id
           /\ \E o \in (IF op_stat[t] THEN StatOutcomes ELSE {"ok"}) :
                \/ /\ o = "ok"
                   /\ ctx' = [ctx EXCEPT ![t].entries =
                                Append(@, Entry(build_rel_path(Root, path), FileType(file), op_stat[t]))]
                   /\ loc' = [loc EXCEPT ![t].files = Tail(@), ![t].seen = Err]
                   /\ pc' = [pc EXCEPT ![t] = "loop"]
                   /\ hist' = [hist EXCEPT ![t].kept = kept,
                                            ![t].stats = StatCalls(@, op_stat[t])]
                \/ /\ o # "ok"
                   /\ MayFault(t)
                   /\ pc' = [pc EXCEPT ![t] = "err"]
                   /\ hist' = [hist EXCEPT ![t].kept = kept, ![t].faults = @ + 1,
                                            ![t].stats = StatCalls(@, op_stat[t])]
                   /\ UNCHANGED <<ctx, loc>>
    /\ UNCHANGED <<op_stat, chain, folder_size, fault_budget, cr, layerVars>>

\* line 163
Return(t) ==
    /\ pc[t] = "loop"
    /\ loc[t].files = <<>>
    /\ pc' = [pc EXCEPT ![t] = "ok"]
    /\ UNCHANGED <<path_cache, ctx, loc, op_stat, chain, folder_size, fault_budget, hist, first_id, cr, layerVars>>

Step(t) ==
    \/ Resolve(t)
    \/ List(t)
    \/ SelfEntry(t)
    \/ Decode(t)
    \/ ChildGet(t)
    \/ ChildPut(t)
    \/ Return(t)

\* One traversal runs alone (earlier ones have left the cache as it is).
Next == New(Main) \/ Call(Main) \/ Step(Main)

\* Traversals run concurrently.
NextConc == \E t \in Listers : New(t) \/ Call(t) \/ Step(t)

Spec == Init /\ [][Next]_vars

SpecConc == InitConc /\ [][NextConc]_vars

\* The pager keeps calling next_page while done is false, and the runtime
\* keeps polling the call: a step that can be taken is taken.
SpecFair == InitFirst /\ [][Next]_vars /\ WF_vars(Next)

(***************************************************************************)
(* BytesContentRange.  The u64 of the code is scaled down to the range     *)
(* 0..U64Max so that texts of a few characters reach its overflow.         *)
(***************************************************************************)
U64Max == 99      \* scaled u64::MAX
MaxLen == 5       \* longest text after the unit prefix

DigitChars == <<"0", "1", "2", "3", "4", "5", "6", "7", "8", "9">>
IsDigit(c) == \E i \in 1..10 : DigitChars[i] = c
DigitValue(c) == (CHOOSE i \in 1..10 : DigitChars[i] = c) - 1

\* u64::to_string
RECURSIVE Dec(_)
Dec(n) == IF n < 10 THEN <<DigitChars[n + 1]>>
          ELSE Dec(n \div 10) \o <<DigitChars[(n % 10) + 1]>>

\* str::parse::<u64>: an optional "+", then one digit at least, each step
\* checked for overflow.  The answer is None for a ParseIntError.
RECURSIVE ParseDigits(_, _)
ParseDigits(str, acc) ==
    IF str = <<>> THEN Some(acc)
    ELSE IF ~IsDigit(Head(str)) THEN None
    ELSE IF acc * 10 + DigitValue(Head(str)) > U64Max THEN None
    ELSE ParseDigits(Tail(str), acc * 10 + DigitValue(Head(str)))

ParseU64(str) ==
    IF str = <<>> THEN None
    ELSE IF Head(str) \in {"+", "-"} /\ Tail(str) = <<>> THEN None
    ELSE IF Head(str) = "+" THEN ParseDigits(Tail(str), 0)
    ELSE ParseDigits(str, 0)

\* str::strip_prefix: Some(rest) or None
StripPrefix(str, prefix) ==
    IF Len(str) >= Len(prefix) /\ SubSeq(str, 1, Len(prefix)) = prefix
    THEN Some(SubSeq(str, Len(prefix) + 1, Len(str)))
    ELSE None

\* str::split(ch).collect(): the pieces between the occurrences of ch
RECURSIVE Split(_, _)
Split(str, ch) ==
    IF \A i \in 1..Len(str) : str[i] # ch THEN <<str>>
    ELSE LET i == CHOOSE k \in 1..Len(str) :
                     str[k] = ch /\ \A j \in 1..(k - 1) : str[j] # ch
         IN  <<SubSeq(str, 1, i - 1)>> \o Split(SubSeq(str, i + 1, Len(str)), ch)

\* lines 48-55 and the derived Default
Default == [start |-> None, end |-> None, size |-> None]

\* lines 59-63
with_range(bcr, start, end) == [bcr EXCEPT !.start = Some(start), !.end = Some(end)]

\* lines 66-69
with_size(bcr, size) == [bcr EXCEPT !.size = Some(size)]

\* u64 arithmetic: a result outside 0..U64Max panics (a build with overflow
\* checks) or wraps (a build without); either may be the build at hand.
U64(x) ==
    IF x \in 0..U64Max THEN {[panic |-> FALSE, val |-> Some(x)]}
    ELSE {[panic |-> TRUE, val |-> None], [panic |-> FALSE, val |-> Some(x % (U64Max + 1))]}

NoValue == [panic |-> FALSE, val |-> None]

\* lines 72-78: Some(start..end + 1), as the pair of its bounds
range(bcr) ==
    IF bcr.start # None /\ bcr.end # None
    THEN {[panic |-> r.panic, val |-> IF r.panic THEN None ELSE Some(<<bcr.start[1], r.val[1]>>)]
          : r \in U64(bcr.end[1] + 1)}
    ELSE {NoValue}

\* lines 81-87: Some(start..=end), as the pair of its bounds
range_inclusive(bcr) ==
    IF bcr.start # None /\ bcr.end # None
    THEN Some(<<bcr.start[1], bcr.end[1]>>)
    ELSE None

\* lines 90-96: Some(end - start + 1), the subtraction first
len(bcr) ==
    IF bcr.start # None /\ bcr.end # None
    THEN UNION {IF d.panic THEN {d} ELSE U64(d.val[1] + 1) : d \in U64(bcr.end[1] - bcr.start[1])}
    ELSE {NoValue}

\* lines 99-101
size(bcr) == bcr.size

\* io::Result<BytesContentRange>
OkBcr(bcr) == [ok |-> TRUE, kind |-> "", val |-> Some(bcr)]
ErrBcr(kind) == [ok |-> FALSE, kind |-> kind, val |-> None]

BytesPrefix == <<"b", "y", "t", "e", "s", " ">>

\* lines 136-152 without the test for "*" at line 148
FromPartsNoStar(s) ==
    LET v == Split(s[1], "-")
    IN  IF Len(v) # 2 THEN ErrBcr("InvalidInput")
        ELSE IF ParseU64(v[1]) = None \/ ParseU64(v[2]) = None THEN ErrBcr("InvalidInput")
        ELSE IF ParseU64(s[2]) = None THEN ErrBcr("InvalidInput")
        ELSE OkBcr(with_size(with_range(Default, ParseU64(v[1])[1], ParseU64(v[2])[1]),
                             ParseU64(s[2])[1]))

\* lines 136-152: the range part and the size part of "start-end/size"
FromParts(s) ==
    LET v == Split(s[1], "-")
    IN  IF Len(v) # 2 THEN ErrBcr("InvalidInput")
        ELSE IF ParseU64(v[1]) = None \/ ParseU64(v[2]) = None THEN ErrBcr("InvalidInput")
        ELSE LET bcr == with_range(Default, ParseU64(v[1])[1], ParseU64(v[2])[1])
             IN  IF s[2] = <<"*">> THEN OkBcr(bcr)
                 ELSE IF ParseU64(s[2]) = None THEN ErrBcr("InvalidInput")
                 ELSE OkBcr(with_size(bcr, ParseU64(s[2])[1]))

\* lines 107-153, with plausible slips
from_str_no_unit(value) ==
    LET s == IF StripPrefix(value, BytesPrefix) = None THEN value
             ELSE StripPrefix(value, BytesPrefix)[1]
    IN  IF StripPrefix(s, <<"*", "/">>) # None
        THEN IF ParseU64(StripPrefix(s, <<"*", "/">>)[1]) = None THEN ErrBcr("InvalidInput")
             ELSE OkBcr(with_size(Default, ParseU64(StripPrefix(s, <<"*", "/">>)[1])[1]))
        ELSE IF Len(Split(s, "/")) # 2 THEN ErrBcr("InvalidInput")
        ELSE FromParts(Split(s, "/"))

from_str_swapped(value) ==
    IF StripPrefix(value, BytesPrefix) = None THEN ErrBcr("InvalidInput")
    ELSE LET s == StripPrefix(value, BytesPrefix)[1]
         IN  IF StripPrefix(s, <<"*", "/">>) # None
             THEN IF ParseU64(StripPrefix(s, <<"*", "/">>)[1]) = None THEN ErrBcr("InvalidInput")
                  ELSE OkBcr(with_size(Default, ParseU64(StripPrefix(s, <<"*", "/">>)[1])[1]))
             ELSE IF Len(Split(s, "/")) # 2 THEN ErrBcr("InvalidInput")
             ELSE LET r == FromParts(Split(s, "/"))
                  IN  IF r.ok
                      THEN OkBcr([r.val[1] EXCEPT !.start = r.val[1].end, !.end = r.val[1].start])
                      ELSE r

\* lines 107-153: impl FromStr for BytesContentRange
from_str(value) ==
    IF StripPrefix(value, BytesPrefix) = None THEN ErrBcr("InvalidInput")
    ELSE LET s == StripPrefix(value, BytesPrefix)[1]
         IN  IF StripPrefix(s, <<"*", "/">>) # None
             THEN IF ParseU64(StripPrefix(s, <<"*", "/">>)[1]) = None THEN ErrBcr("InvalidInput")
                  ELSE OkBcr(with_size(Default, ParseU64(StripPrefix(s, <<"*", "/">>)[1])[1]))
             ELSE IF Len(Split(s, "/")) # 2 THEN ErrBcr("InvalidInput")
             ELSE FromParts(Split(s, "/"))

\* The wire text of a value (§4.1, §6): "bytes start-end/size",
\* "bytes start-end/*", "bytes */size".
Format(bcr) ==
    BytesPrefix
    \o (IF bcr.start # None /\ bcr.end # None
        THEN Dec(bcr.start[1]) \o <<"-">> \o Dec(bcr.end[1])
        ELSE <<"*">>)
    \o <<"/">>
    \o (IF bcr.size # None THEN Dec(bcr.size[1]) ELSE <<"*">>)

\* The inputs: texts of up to MaxLen characters, with and without the unit,
\* and values built from the default by the builders.
Alphabet == {"1", "-", "/", "*", "+", "a"}
Texts == {p \o r : p \in {BytesPrefix, <<>>}, r \in SeqsUpTo(Alphabet, MaxLen)}
Nums == {0, 1, 10, U64Max}
Forms == {"range", "range_size", "size"}

Build(form, s, e, n) ==
    CASE form = "range" -> with_range(Default, s, e)
      [] form = "range_size" -> with_size(with_range(Default, s, e), n)
      [] form = "size" -> with_size(Default, n)

NoRes == ErrBcr("")

\* What the accessors answered for the value `of`.
NoMeasure == [of |-> Default, len |-> NoValue, range |-> NoValue, range_inclusive |-> None,
              size |-> None]

Measures(bcr) ==
    {[of |-> bcr, len |-> l, range |-> r, range_inclusive |-> range_inclusive(bcr),
      size |-> size(bcr)] : l \in len(bcr), r \in range(bcr)}

InitBCR ==
    /\ InitLister(MaxChildren, EmptyCaches, 0)
    /\ path_cache[SelfPath] = None
    /\ \/ \E t \in Texts :
            cr = [phase |-> "text", form |-> "raw", s |-> 0, e |-> 0, n |-> 0,
                  text |-> t, res |-> NoRes, text2 |-> <<>>, m |-> NoMeasure]
       \/ \E f \in Forms, s \in Nums, e \in Nums, n \in Nums :
            /\ (f = "range" => n = 0)
            /\ (f = "size" => s = 0 /\ e = 0)
            /\ cr = [phase |-> "value", form |-> f, s |-> s, e |-> e, n |-> n,
                     text |-> <<>>, res |-> NoRes, text2 |-> <<>>, m |-> NoMeasure]

\* The value is written as a header text.
FormatValue ==
    /\ cr.phase = "value"
    /\ cr' = [cr EXCEPT !.phase = "text", !.text = Format(Build(cr.form, cr.s, cr.e, cr.n))]
    /\ UNCHANGED <<listerVars, layerVars>>

\* The text is parsed.
Parse ==
    /\ cr.phase = "text"
    /\ cr' = [cr EXCEPT !.phase = "parsed", !.res = from_str(cr.text)]
    /\ UNCHANGED <<listerVars, layerVars>>

\* What the parse gave is written again.
Reformat ==
    /\ cr.phase = "parsed"
    /\ cr.res.ok
    /\ cr' = [cr EXCEPT !.phase = "reformatted", !.text2 = Format(cr.res.val[1])]
    /\ UNCHANGED <<listerVars, layerVars>>

\* The accessors are called on the value the builders made.
MeasureBuilt ==
    /\ cr.phase = "value"
    /\ \E m \in Measures(Build(cr.form, cr.s, cr.e, cr.n)) :
          cr' = [cr EXCEPT !.phase = "measured", !.m = m]
    /\ UNCHANGED <<listerVars, layerVars>>

\* The accessors are called on the value the parse gave.
MeasureParsed ==
    /\ cr.phase = "parsed"
    /\ cr.res.ok
    /\ \E m \in Measures(cr.res.val[1]) :
          cr' = [cr EXCEPT !.phase = "measured", !.m = m]
    /\ UNCHANGED <<listerVars, layerVars>>

NextBCR == FormatValue \/ Parse \/ Reformat \/ MeasureBuilt \/ MeasureParsed

SpecBCR == InitBCR /\ [][NextBCR]_vars

(***************************************************************************)
(* Layers (bindings/ruby/src/layers.rs).  The binding constructs the core  *)
(* layers and applies them to an Operator; the core layers themselves      *)
(* (§4.4 - §4.6) are the retry loop, the admission gate and the wrapping.  *)
(***************************************************************************)
\* ocore::layers::RetryLayer::default() and its builders (§4.4): the
\* number of attempts is unbounded unless set.
RetryDefault ==
    [kind |-> "retry", max_times |-> None, factor |-> None, jitter |-> FALSE,
     max_delay |-> None, min_delay |-> None]

with_max_times(retry, max_times) == [retry EXCEPT !.max_times = Some(max_times)]
with_factor(retry, factor) == [retry EXCEPT !.factor = Some(factor)]
with_jitter(retry) == [retry EXCEPT !.jitter = TRUE]
with_max_delay(retry, micros) == [retry EXCEPT !.max_delay = Some(micros)]
with_min_delay(retry, micros) == [retry EXCEPT !.min_delay = Some(micros)]

\* lines 70 and 73: Duration::from_micros((delay * 1000000.0) as u64), for a
\* delay given in whole seconds.
Micros(delay) == delay * 1000000

\* PyResult<PyClassInitializer<Self>>
OkLayer(l) == [ok |-> TRUE, layer |-> l]

\* lines 52-81
RetryLayerNewNoMaxTimes(max_times, factor, jitter, max_delay, min_delay) ==
    LET r2 == IF factor # None THEN with_factor(RetryDefault, factor[1]) ELSE RetryDefault
        r3 == IF jitter THEN with_jitter(r2) ELSE r2
        r4 == IF max_delay # None THEN with_max_delay(r3, Micros(max_delay[1])) ELSE r3
        r5 == IF min_delay # None THEN with_min_delay(r4, Micros(min_delay[1])) ELSE r4
    IN  OkLayer(r5)

RetryLayerNew(max_times, factor, jitter, max_delay, min_delay) ==
    LET r1 == IF max_times # None THEN with_max_times(RetryDefault, max_times[1]) ELSE RetryDefault
        r2 == IF factor # None THEN with_factor(r1, factor[1]) ELSE r1
        r3 == IF jitter THEN with_jitter(r2) ELSE r2
        r4 == IF max_delay # None THEN with_max_delay(r3, Micros(max_delay[1])) ELSE r3
        r5 == IF min_delay # None THEN with_min_delay(r4, Micros(min_delay[1])) ELSE r4
    IN  OkLayer(r5)

\* ocore::layers::ConcurrentLimitLayer::new(limit) (§4.5): a gate of
\* `limit` slots.
CoreConcurrentLimitLayer(limit) == [kind |-> "limit", limit |-> limit]

\* lines 94-105
ConcurrentLimitLayerNewOneMore(limit) == OkLayer(CoreConcurrentLimitLayer(limit + 1))

ConcurrentLimitLayerNew(limit) == OkLayer(CoreConcurrentLimitLayer(limit))

\* Operator::layer (§4.6): the layer wraps the operator, so it is the
\* outermost of the result.
OperatorLayer(op, l) == Append(op, l)

\* lines 37-41 and 88-92: op.layer(self.0.clone())
layer_not_applied(self, op) == op

layer(self, op) == OperatorLayer(op, self)

\* The optional settings of a RetryLayer besides max_times, as the caller
\* gives them: none of them, or all of them.
Tunings ==
    { [factor |-> None, jitter |-> FALSE, max_delay |-> None, min_delay |-> None],
      [factor |-> Some(2), jitter |-> TRUE, max_delay |-> Some(2), min_delay |-> Some(1)] }

NoCallYet == \A c \in Callers : calls[c].st = "idle"

\* RetryLayer.new(max_times:, factor:, jitter:, max_delay:, min_delay:)
NewRetry ==
    /\ made = None
    /\ NoCallYet
    /\ applied < MaxLayers
    /\ \E max_times \in {None} \cup {Some(n) : n \in 1..MaxTimes}, tu \in Tunings :
          made' = Some([res |-> RetryLayerNew(max_times, tu.factor, tu.jitter,
                                              tu.max_delay, tu.min_delay),
                        arg |-> max_times])
    /\ UNCHANGED <<listerVars, cr, op_layers, permits, calls, applied>>

\* ConcurrentLimitLayer.new(limit)
NewLimit ==
    /\ made = None
    /\ NoCallYet
    /\ applied < MaxLayers
    /\ \E limit \in 0..MaxLimit :
          made' = Some([res |-> ConcurrentLimitLayerNew(limit), arg |-> Some(limit)])
    /\ UNCHANGED <<listerVars, cr, op_layers, permits, calls, applied>>

\* layer.layer(op): the Operator gets the layer; a gate starts with all its
\* slots free.
Apply ==
    /\ made # None
    /\ made[1].res.ok
    /\ applied' = applied + 1
    /\ op_layers' = layer(made[1].res.layer @@ [arg |-> made[1].arg, nth |-> applied'],
                          op_layers)
    /\ permits' = [k \in 1..Len(op_layers') |->
                     IF k <= Len(permits) THEN permits[k]
                     ELSE IF op_layers'[k].kind = "limit" THEN op_layers'[k].limit ELSE 0]
    /\ made' = None
    /\ UNCHANGED <<listerVars, cr, calls>>

\* A caller starts an operation on the Operator: it enters the outermost
\* layer.
Invoke(c) ==
    /\ made = None
    /\ calls[c].st = "idle"
    /\ calls' = [calls EXCEPT ![c].st = "down", ![c].at = Len(op_layers)]
    /\ UNCHANGED <<listerVars, cr, made, op_layers, permits, applied>>

FirstPass(c, nth) ==
    IF calls[c].backend = 0 THEN Append(calls[c].trace, nth) ELSE calls[c].trace

\* The gate (§4.5): the call takes a slot, or waits while none is free.
Acquire(c) ==
    /\ calls[c].st = "down"
    /\ calls[c].at > 0
    /\ op_layers[calls[c].at].kind = "limit"
    /\ permits[calls[c].at] > 0
    /\ permits' = [permits EXCEPT ![calls[c].at] = @ - 1]
    /\ calls' = [calls EXCEPT ![c].held = @ \cup {calls[c].at},
                              ![c].trace = FirstPass(c, op_layers[calls[c].at].nth),
                              ![c].at = @ - 1]
    /\ UNCHANGED <<listerVars, cr, made, op_layers, applied>>

\* The retry layer (§4.4) makes its first attempt.
Attempt(c) ==
    /\ calls[c].st = "down"
    /\ calls[c].at > 0
    /\ op_layers[calls[c].at].kind = "retry"
    /\ calls' = [calls EXCEPT ![c].tries[calls[c].at] = 1,
                              ![c].trace = FirstPass(c, op_layers[calls[c].at].nth),
                              ![c].at = @ - 1]
    /\ UNCHANGED <<listerVars, cr, made, op_layers, permits, applied>>

\* Where a call is that comes out of layer k (of the backend, for k = 0):
\* out of the outermost, the result is with the caller.
Out(k) == IF k = Len(op_layers) THEN "done" ELSE "up"

\* The backend accessor answers.
Backend(c) ==
    /\ calls[c].st = "down"
    /\ calls[c].at = 0
    /\ \E o \in Outcomes :
          calls' = [calls EXCEPT ![c].st = Out(0), ![c].at = 1, ![c].res = o,
                                 ![c].trace = FirstPass(c, 0),
                                 ![c].backend = @ + 1,
                                 ![c].retryable = @ /\ o = "retryable"]
    /\ UNCHANGED <<listerVars, cr, made, op_layers, permits, applied>>

\* The gate (§4.5): the slot is given back when the operation completes,
\* with success or failure.
Release(c) ==
    /\ calls[c].st = "up"
    /\ op_layers[calls[c].at].kind = "limit"
    /\ permits' = [permits EXCEPT ![calls[c].at] = @ + 1]
    /\ calls' = [calls EXCEPT ![c].held = @ \ {calls[c].at}, ![c].st = Out(calls[c].at),
                              ![c].at = @ + 1]
    /\ UNCHANGED <<listerVars, cr, made, op_layers, applied>>

\* The retry layer (§4.4): a retryable error is tried again (after the
\* backoff delay) while attempts are left; anything else is handed on.
ShouldRetry(retry, res, tries) ==
    /\ res = "retryable"
    /\ (retry.max_times = None \/ tries < retry.max_times[1])

Retry(c) ==
    /\ calls[c].st = "up"
    /\ op_layers[calls[c].at].kind = "retry"
    /\ IF ShouldRetry(op_layers[calls[c].at], calls[c].res, calls[c].tries[calls[c].at])
       THEN /\ calls[c].backend < MaxTries
            /\ calls' = [calls EXCEPT ![c].st = "down",
                                      ![c].tries[calls[c].at] = @ + 1,
                                      ![c].at = @ - 1]
       ELSE calls' = [calls EXCEPT ![c].st = Out(calls[c].at), ![c].at = @ + 1]
    /\ UNCHANGED <<listerVars, cr, made, op_layers, permits, applied>>

InitLayer ==
    /\ InitLister(MaxChildren, EmptyCaches, 0)
    /\ path_cache[SelfPath] = None
    /\ cr = IdleCR

\* One caller, any layers.
NextLayer ==
    \/ NewRetry
    \/ NewLimit
    \/ Apply
    \/ Invoke(Solo)
    \/ Acquire(Solo)
    \/ Attempt(Solo)
    \/ Backend(Solo)
    \/ Release(Solo)
    \/ Retry(Solo)

\* Concurrent callers of an Operator behind admission gates.
NextGate ==
    \/ NewLimit
    \/ Apply
    \/ \E c \in Callers :
          Invoke(c) \/ Acquire(c) \/ Backend(c) \/ Release(c)

SpecLayer == InitLayer /\ [][NextLayer]_vars

SpecGate == InitLayer /\ [][NextGate]_vars

(***************************************************************************)
(* Claims about GdriveLister::next_page.                                   *)
(***************************************************************************)

\* C1: over a finite page chain whose last page has no next-page token, and
\* with every remote call succeeding, the pager reaches done = true, and by
\* then has made at most one next_page call per page of the chain (exactly
\* one per page when the traversal ran to the last page, fewer when an empty
\* body ended it before).
C1_PagerTerminates ==
    /\ [](  (ctx[Main].done /\ pc[Main] = "ok" /\ hist[Main].faults = 0)
          => /\ hist[Main].calls <= chain[Main]
             /\ (hist[Main].early = "no" => hist[Main].calls = chain[Main]))
    /\ ((pc[Main] = "new") ~> (ctx[Main].done \/ hist[Main].faults > 0))

C1_Witness ==
    /\ ctx[Main].done /\ pc[Main] = "ok" /\ hist[Main].faults = 0
    /\ hist[Main].early = "no" /\ hist[Main].calls = MaxPages

\* C2: when the pager has stopped at done = true after a traversal of the
\* whole chain in which no call failed, ctx.entries holds one entry per
\* record of the pages served plus exactly one self-entry.
C2_TotalEntries ==
    \A t \in Listers :
        (ctx[t].done /\ pc[t] = "ok" /\ hist[t].faults = 0 /\ hist[t].early = "no")
        => Len(ctx[t].entries) = hist[t].served + 1

C2_Witness ==
    /\ ctx[Main].done /\ pc[Main] = "ok" /\ hist[Main].faults = 0
    /\ hist[Main].early = "no" /\ hist[Main].calls = 2
    /\ hist[Main].served = 2 /\ Len(ctx[Main].entries) = 3

\* C3: a call that ends the traversal early (the path has no id in the
\* cache, or the listing answered OK with an empty body) sets done, returns
\* Ok and leaves ctx.entries as it was when the call began; for a path
\* without id no list request is made.
C3_EarlyEndAppendsNothing ==
    \A t \in Listers :
        hist[t].early # "no"
        => /\ ctx[t].done
           /\ pc[t] = "ok"
           /\ ctx[t].entries = hist[t].pre.entries
           /\ (hist[t].early = "unresolved" => hist[t].lists = 0 /\ ctx[t].entries = <<>>)

C3_Witness ==
    /\ hist[Main].early = "empty" /\ hist[Main].calls = 2
    /\ Len(ctx[Main].entries) = 2 /\ ctx[Main].done

C3_WitnessUnresolved ==
    /\ hist[Main].early = "unresolved" /\ hist[Main].calls = 1 /\ ctx[Main].done

\* C4: when a next_page call returns an error, ctx.entries is what it was
\* when the call began.
C4_AllOrNothing ==
    \A t \in Listers : pc[t] = "err" => ctx[t].entries = hist[t].pre.entries

\* C5: once ctx.done is true, no step appends to ctx.entries.
C5_NoAppendAfterDone ==
    [][\A t \in Listers : ctx[t].done => ctx'[t].entries = ctx[t].entries]_vars

\* C6: under any interleaving of listings that share the cache, a path's id
\* is never replaced once it is set.
C6_NeverOverwritten ==
    [][\A p \in Paths : path_cache[p] # None => path_cache'[p] = path_cache[p]]_vars

\* C7: when traversals run one at a time, the cache answers for every path
\* with the first id registered for it, also after a later record of the
\* same path and another id was processed.
C7_FirstWriterWins ==
    \A p \in Paths : first_id[p] # None => CacheGet(path_cache, p) = first_id[p]

C7_Witness ==
    /\ hist[Main].kept
    /\ pc[Main] = "ok"
    /\ hist[Main].pre.entries = <<>>
    /\ Len(ctx[Main].entries) = 3
    /\ ctx[Main].entries[2].path = ctx[Main].entries[3].path
    /\ CacheGet(path_cache, ChildPath(CHOOSE r \in Records : r.id = "id1")) = Some("id1")

\* What the running (or last) next_page call has appended so far.
Appended(t) == SubSeq(ctx[t].entries, Len(hist[t].pre.entries) + 1, Len(ctx[t].entries))

SelfEntryPath == build_rel_path(Root, SelfPath)

ChildEntries(files, stat) ==
    [i \in 1..Len(files) |->
        Entry(build_rel_path(Root, ChildPath(files[i])), FileType(files[i]), stat)]

WasFirstPage(t) == hist[t].pre.token = EmptyToken /\ ~hist[t].pre.done

\* C15: an entry for the listed folder itself is appended only by a call
\* that began with an empty token and done false, and then as the first
\* entry of the call; a call that returns Ok has appended nothing when it
\* ended the traversal early, and otherwise the self-entry (mode DIR) when
\* and only when it began on the first page, followed by one entry per
\* record in the order of the records.
C15_SelfEntryFirstPage ==
    \A t \in Listers :
        /\ \A i \in 1..Len(Appended(t)) :
              Appended(t)[i].path = SelfEntryPath
              => i = 1 /\ WasFirstPage(t) /\ Appended(t)[i].mode = "DIR"
        /\ pc[t] = "ok"
           => Appended(t) =
                 IF hist[t].early # "no" THEN <<>>
                 ELSE (IF WasFirstPage(t)
                       THEN <<Entry(SelfEntryPath, "DIR", op_stat[t])>> ELSE <<>>)
                      \o ChildEntries(loc[t].body.files, op_stat[t])

C15_Witness ==
    /\ pc[Main] = "ok"
    /\ hist[Main].calls = 2
    /\ hist[Main].faults = 0
    /\ ~WasFirstPage(Main)
    /\ Len(Appended(Main)) = 2
    /\ Appended(Main)[1].mode = "DIR"
    /\ Appended(Main)[2].mode = "FILE"
    /\ ctx[Main].entries[1].path = SelfEntryPath

\* C16: after a next_page call that returned Ok, done is true or the token
\* is not empty, whatever next-page token the response carried.
C16_NeverFirstAfterOk ==
    \A t \in Listers : pc[t] = "ok" => (ctx[t].done \/ ctx[t].token # EmptyToken)

\* C17: a traversal makes at most one list request per next_page call; the
\* first request carries the empty token, every later one the next-page
\* token of the last response that was decoded; and a decoded response
\* without next-page token sets done, with or without records in the page.
C17_TokenChain ==
    \A t \in Listers :
        /\ hist[t].lists <= hist[t].calls
        /\ hist[t].lists = 1 => hist[t].sent = Some(EmptyToken)
        /\ pc[t] \in {"self", "decode"} => hist[t].sent = Some(hist[t].cursor)
        /\ (/\ pc[t] \in {"loop", "put", "ok"}
            /\ hist[t].early = "no"
            /\ loc[t].body.next_page_token = None)
           => ctx[t].done

C17_Witness ==
    /\ pc[Main] = "loop"
    /\ hist[Main].faults = 0
    /\ hist[Main].lists = 2
    /\ hist[Main].sent = Some(Token(1))
    /\ loc[Main].body.next_page_token = None
    /\ Len(loc[Main].body.files) = 2
    /\ ctx[Main].done

Gated(t) == hist[t].metakey \cap {"ContentLength", "LastModified"} = {}

\* C18: stat calls are made only when the caller's metakey set holds
\* ContentLength or LastModified; when it holds neither, no stat call is
\* made in the whole traversal, every entry carries its mode only, and each
\* call that returns Ok has still appended the self-entry (on the first
\* page) and an entry for every record.
C18_MetakeyGatesStat ==
    \A t \in Listers :
        /\ hist[t].stats > 0 => ~Gated(t)
        /\ (Gated(t) /\ pc[t] # "none")
           => /\ hist[t].stats = 0
              /\ \A i \in 1..Len(ctx[t].entries) : ~ctx[t].entries[i].stat
              /\ (pc[t] = "ok" /\ hist[t].early = "no")
                 => Len(Appended(t)) =
                       Len(loc[t].body.files) + (IF WasFirstPage(t) THEN 1 ELSE 0)

C18_Witness ==
    /\ hist[Main].metakey = {"Mode"}
    /\ pc[Main] = "ok"
    /\ ctx[Main].done
    /\ hist[Main].early = "no"
    /\ hist[Main].stats = 0
    /\ Len(ctx[Main].entries) = 3
    /\ ctx[Main].entries[1].path = SelfEntryPath

\* C20: when a next_page call returns an error, ctx.token and ctx.done are
\* what they were when the call began.
C20_FailureKeepsCursor ==
    \A t \in Listers :
        pc[t] = "err"
        => ctx[t].token = hist[t].pre.token /\ ctx[t].done = hist[t].pre.done

(***************************************************************************)
(* Claims about BytesContentRange.                                         *)
(***************************************************************************)

\* The Content-Range grammar, stated on the text: a field is an unsigned
\* integer as str::parse::<u64> reads it (digits, an optional leading "+",
\* a value that fits).
RECURSIVE ValueOf(_)
ValueOf(d) ==
    IF d = <<>> THEN 0
    ELSE ValueOf(SubSeq(d, 1, Len(d) - 1)) * 10 + DigitValue(d[Len(d)])

IsUInt(str) ==
    LET d == IF str # <<>> /\ str[1] = "+" THEN Tail(str) ELSE str
    IN  /\ d # <<>>
        /\ \A i \in 1..Len(d) : IsDigit(d[i])
        /\ ValueOf(d) <= U64Max

RangeForm(r) ==
    \E i \in 1..Len(r), j \in 1..Len(r) :
        /\ i < j
        /\ r[i] = "-"
        /\ r[j] = "/"
        /\ IsUInt(SubSeq(r, 1, i - 1))
        /\ IsUInt(SubSeq(r, i + 1, j - 1))
        /\ \/ SubSeq(r, j + 1, Len(r)) = <<"*">>
           \/ IsUInt(SubSeq(r, j + 1, Len(r)))

SizeForm(r) ==
    /\ Len(r) > 2
    /\ r[1] = "*"
    /\ r[2] = "/"
    /\ IsUInt(SubSeq(r, 3, Len(r)))

InGrammar(text) ==
    /\ Len(text) >= Len(BytesPrefix)
    /\ SubSeq(text, 1, Len(BytesPrefix)) = BytesPrefix
    /\ LET r == SubSeq(text, Len(BytesPrefix) + 1, Len(text))
       IN  RangeForm(r) \/ SizeForm(r)

Parsed == cr.phase \in {"parsed", "reformatted"}

\* C8: for start <= end and a known size, the text of the value parses to a
\* value with the same start, end and size, and that value is written as the
\* same text.
C8_RoundTrip ==
    (Parsed /\ cr.form = "range_size" /\ cr.s <= cr.e)
    => /\ cr.text = Format([start |-> Some(cr.s), end |-> Some(cr.e), size |-> Some(cr.n)])
       /\ cr.res.ok
       /\ cr.res.val = Some([start |-> Some(cr.s), end |-> Some(cr.e), size |-> Some(cr.n)])
       /\ (cr.phase = "reformatted" => cr.text2 = cr.text)

C8_Witness ==
    /\ cr.phase = "reformatted" /\ cr.form = "range_size"
    /\ cr.s = 1 /\ cr.e = 10 /\ cr.n = U64Max
    /\ cr.text2 = cr.text
    /\ cr.text = BytesPrefix \o <<"1", "-", "1", "0", "/">> \o Dec(U64Max)

\* C9: "bytes s-e/*" parses to range (s, e) with the size unknown,
\* "bytes s-e/n" to range (s, e) with size n, "bytes */n" to an unknown
\* range with size n; each is the value the builders make from the default.
C9_ParseForms ==
    (Parsed /\ cr.form # "raw")
    => /\ cr.form = "range" =>
            /\ cr.text = BytesPrefix \o Dec(cr.s) \o <<"-">> \o Dec(cr.e) \o <<"/", "*">>
            /\ cr.res = OkBcr([start |-> Some(cr.s), end |-> Some(cr.e), size |-> None])
            /\ cr.res.val[1] = with_range(Default, cr.s, cr.e)
       /\ cr.form = "range_size" =>
            /\ cr.text = BytesPrefix \o Dec(cr.s) \o <<"-">> \o Dec(cr.e) \o <<"/">> \o Dec(cr.n)
            /\ cr.res = OkBcr([start |-> Some(cr.s), end |-> Some(cr.e), size |-> Some(cr.n)])
            /\ cr.res.val[1] = with_size(with_range(Default, cr.s, cr.e), cr.n)
       /\ cr.form = "size" =>
            /\ cr.text = BytesPrefix \o <<"*", "/">> \o Dec(cr.n)
            /\ cr.res = OkBcr([start |-> None, end |-> None, size |-> Some(cr.n)])
            /\ cr.res.val[1] = with_size(Default, cr.n)

C9_Witness ==
    /\ cr.phase = "parsed" /\ cr.form = "range"
    /\ cr.text = BytesPrefix \o <<"1", "0", "-", "1", "0", "/", "*">>
    /\ cr.res = OkBcr([start |-> Some(10), end |-> Some(10), size |-> None])

\* C10: a text without the "bytes " unit, or whose remainder is none of
\* start-end/size, start-end/* and */size with unsigned integer fields, is
\* refused with InvalidInput and yields no value.
C10_InvalidRejected ==
    (Parsed /\ ~InGrammar(cr.text)) => cr.res = ErrBcr("InvalidInput")

C10_Witness ==
    /\ cr.phase = "parsed"
    /\ cr.text = BytesPrefix \o <<"a", "-", "1", "/", "*">>
    /\ cr.res = ErrBcr("InvalidInput")

\* C19: a value with a known range, built by with_range or given by a
\* parse, has start <= end; len() answers end - start + 1, range() the
\* bounds (start, end + 1) and range_inclusive() the bounds (start, end),
\* and none of them leaves the u64.
C19_RangeWellFormed ==
    (cr.phase = "measured" /\ cr.m.of.start # None /\ cr.m.of.end # None)
    => /\ cr.m.of.start[1] <= cr.m.of.end[1]
       /\ cr.m.len = [panic |-> FALSE, val |-> Some(cr.m.of.end[1] - cr.m.of.start[1] + 1)]
       /\ cr.m.range = [panic |-> FALSE, val |-> Some(<<cr.m.of.start[1], cr.m.of.end[1] + 1>>)]
       /\ cr.m.range_inclusive = Some(<<cr.m.of.start[1], cr.m.of.end[1]>>)

(***************************************************************************)
(* Claims about the layers.                                                *)
(***************************************************************************)
Gates == {k \in 1..Len(op_layers) : op_layers[k].kind = "limit"}
RetryLayers == {k \in 1..Len(op_layers) : op_layers[k].kind = "retry"}

\* The calls that hold a slot of gate k (they execute through the layer) and
\* the calls that wait at it.
InFlight(k) == {c \in Callers : k \in calls[c].held}
Waiting(k) == {c \in Callers : calls[c].st = "down" /\ calls[c].at = k}
Pending == {c \in Callers : calls[c].st # "idle"}

\* C11: through a ConcurrentLimitLayer made with limit N at most N calls
\* execute at once; when N + 1 calls have been made on an Operator with that
\* one layer and the backend has answered none of them, as soon as N are in
\* flight exactly 1 waits; and a call that waits is admitted only when fewer
\* than N are in flight, that is, after a slot was freed.
C11_AtMostLimit ==
    /\ [](\A k \in Gates : Cardinality(InFlight(k)) <= op_layers[k].arg[1])
    /\ []((/\ Gates = {1}
           /\ Len(op_layers) = 1
           /\ Cardinality(Pending) = op_layers[1].arg[1] + 1
           /\ \A c \in Pending : calls[c].st = "down")
          => /\ Cardinality(InFlight(1)) + Cardinality(Waiting(1)) = op_layers[1].arg[1] + 1
             /\ Cardinality(Waiting(1)) >= 1
             /\ (Cardinality(InFlight(1)) = op_layers[1].arg[1] => Cardinality(Waiting(1)) = 1))
    /\ [][\A k \in Gates : \A c \in Waiting(k) :
             calls'[c].at # k => Cardinality(InFlight(k)) < op_layers[k].arg[1]]_vars

C11_Witness ==
    /\ Len(op_layers) = 1
    /\ Gates = {1}
    /\ op_layers[1].arg = Some(MaxLimit)
    /\ Cardinality(Pending) = MaxLimit + 1
    /\ \A c \in Pending : calls[c].st = "down"
    /\ Cardinality(InFlight(1)) = MaxLimit
    /\ Cardinality(Waiting(1)) = 1

\* C12: ConcurrentLimitLayer::new with a limit that is not positive fails
\* and produces no layer.
C12_NonPositiveLimitFails ==
    (made # None /\ made[1].res.layer.kind = "limit" /\ made[1].arg[1] <= 0)
    => ~made[1].res.ok

\* C13: on an Operator with one RetryLayer made with max_times = n, a call
\* whose every backend attempt fails with a retryable error makes no more
\* than n attempts, and when the error is handed to the caller it has made
\* exactly n.
C13_ExactlyMaxTimes ==
    \A k \in RetryLayers :
        (RetryLayers = {k} /\ op_layers[k].arg # None /\ calls[Solo].retryable)
        => /\ calls[Solo].backend <= op_layers[k].arg[1]
           /\ (calls[Solo].st = "done"
               => /\ calls[Solo].backend = op_layers[k].arg[1]
                  /\ calls[Solo].res = "retryable")

C13_Witness ==
    /\ RetryLayers = {1}
    /\ Len(op_layers) = 1
    /\ op_layers[1].arg = Some(MaxTimes)
    /\ calls[Solo].st = "done"
    /\ calls[Solo].retryable
    /\ calls[Solo].backend = MaxTimes

\* C14: a call on the Operator comes to the layers in the reverse of the
\* order in which they were applied (the last applied first) and to the
\* backend after all of them.
C14_LastAppliedOutermost ==
    /\ \A i \in 1..Len(calls[Solo].trace) : calls[Solo].trace[i] = applied + 1 - i
    /\ (calls[Solo].backend > 0 => Len(calls[Solo].trace) = applied + 1)

C14_Witness ==
    /\ applied = 2
    /\ op_layers[1].kind = "retry"
    /\ op_layers[2].kind = "limit"
    /\ calls[Solo].st = "done"
    /\ calls[Solo].trace = <<2, 1, 0>>

====
